---- MODULE Spec2Model ----
(***************************************************************************)
(* The per-user conversation state machine of the fortune-telling bot      *)
(* (src/main.py): the session map user_data, the message handler           *)
(* handle_message, the button handler handle_callback, /start, and the     *)
(* three reading flows (dream, coffee, tarot).                             *)
(*                                                                         *)
(* A session is a Python dict; it is modelled as a function whose DOMAIN   *)
(* is the set of keys the dict holds, so "key in dict" is k \in DOMAIN s   *)
(* and a missing key raises KeyError exactly where the code indexes it.    *)
(*                                                                         *)
(* Texts are sequences of character tokens.  The fixed Persian button      *)
(* texts are one-token sequences with an ASCII stand-in for the literal    *)
(* (the literal is given in the comment); numerals are digit sequences, so *)
(* int(text) is computed.  A message without text (voice, photo) has       *)
(* text = None, modelled as the empty sequence: Telegram never delivers an *)
(* empty text and line 123 maps every falsy text to None.                  *)
(*                                                                         *)
(* Handlers are modelled as invoked for the updates their filters accept   *)
(* (lines 530-533).  All handlers are registered in one group and line 529 *)
(* registers pre_start first for every non-command message; the model      *)
(* follows the handlers themselves, which is what the state machine of     *)
(* the specification is about.                                             *)
(***************************************************************************)
EXTENDS Integers, Sequences, FiniteSets, TLC

VARIABLES user_data, offered, last, queue, running, temp_ogg

vars == <<user_data, offered, last, queue, running, temp_ogg>>

-----------------------------------------------------------------------------
(* Bounds of the model *)

\* random seeds explored for one tarot draw in the whole state machine:
\* 0 .. MaxSeed-1
MaxSeed == 1
\* pending updates the update queue holds in the scheduling model
MaxQueue == 2
\* random seeds explored when the draw itself is examined: 0 .. MaxDrawSeed-1
MaxDrawSeed == 6

-----------------------------------------------------------------------------
(* Program constants *)

\* line 307: random.sample(range(78), num_cards)
DeckSize == 78
\* line 200: 1900 <= year
MinYear == 1900
\* line 199: datetime.now().year
CurrentYear == 2026

\* lines 58-64: TAROT_LAYOUTS, key -> real name
\*   "razha" = 'رازهای نهفته', "masir" = 'مسیر سرنوشت', "ayeneh" = 'آینه روح',
\*   "charkheh" = 'چرخه تقدیر', "hamahangi" = 'هماهنگی ستارگان'
TAROT_LAYOUTS ==
    [razha |-> "Celtic Cross", masir |-> "Three Card Spread",
     ayeneh |-> "One Card Draw", charkheh |-> "Past Present Future",
     hamahangi |-> "Relationship Spread"]

\* lines 299-305
card_counts ==
    [l \in {"Celtic Cross", "Three Card Spread", "One Card Draw",
            "Past Present Future", "Relationship Spread"} |->
        CASE l = "Celtic Cross" -> 10
          [] l = "Three Card Spread" -> 3
          [] l = "One Card Draw" -> 1
          [] l = "Past Present Future" -> 3
          [] l = "Relationship Spread" -> 7]

\* lines 87-90: PERSIAN_MONTHS (transliterated)
PERSIAN_MONTHS ==
    << <<"farvardin">>, <<"ordibehesht">>, <<"khordad">>, <<"tir">>,
       <<"mordad">>, <<"shahrivar">>, <<"mehr">>, <<"aban">>, <<"azar">>,
       <<"dey">>, <<"bahman">>, <<"esfand">> >>

\* lines 94-95: the MAIN_MENU texts
TxtDream == <<"menu_dream">>
TxtCoffee == <<"menu_coffee">>
TxtTarot == <<"menu_tarot">>
TxtExplain == <<"menu_explanations">>
\* line 100: the PERSISTENT_MENU texts 'خانه 🏠' and 'خانه تکانی 🧹'
TxtHome == <<"home">>
TxtReset == <<"reset">>
\* line 173: 'مرد 👨', 'زن 👩'
TxtMale == <<"male">>
TxtFemale == <<"female">>
\* line 123: update.message.text of a message without text
None == <<>>

-----------------------------------------------------------------------------
(* Python dict and conversions *)

Has(d, k) == k \in DOMAIN d

Put(d, k, v) == [x \in (DOMAIN d) \cup {k} |-> IF x = k THEN v ELSE d[x]]

\* lines 114, 127, 164: {'state': 'main_menu'}
Fresh == [state |-> "main_menu"]

Digits == {"0", "1", "2", "3", "4", "5", "6", "7", "8", "9"}

DigitValue(c) ==
    CASE c = "0" -> 0 [] c = "1" -> 1 [] c = "2" -> 2 [] c = "3" -> 3
      [] c = "4" -> 4 [] c = "5" -> 5 [] c = "6" -> 6 [] c = "7" -> 7
      [] c = "8" -> 8 [] c = "9" -> 9

RECURSIVE DigitsValue(_)
DigitsValue(t) ==
    IF t = <<>> THEN 0
    ELSE 10 * DigitsValue(SubSeq(t, 1, Len(t) - 1)) + DigitValue(t[Len(t)])

\* line 198: int(text).  None raises TypeError, a text that is not a
\* numeral raises ValueError (signs, blanks and underscores are not in the
\* model's alphabet).
PyInt(t) ==
    IF t = None THEN [err |-> "TypeError", val |-> 0]
    ELSE IF \A i \in 1..Len(t) : t[i] \in Digits
         THEN [err |-> "none", val |-> DigitsValue(t)]
         ELSE [err |-> "ValueError", val |-> 0]

\* line 186: PERSIAN_MONTHS.index(text) + 1
MonthIndex(t) == CHOOSE i \in 1..Len(PERSIAN_MONTHS) : PERSIAN_MONTHS[i] = t

IsMonth(t) == \E i \in 1..Len(PERSIAN_MONTHS) : PERSIAN_MONTHS[i] = t

\* lines 202, 323: f'awaiting_{section}'
AwaitingOf(section) ==
    CASE section = "dream" -> "awaiting_dream"
      [] section = "coffee" -> "awaiting_coffee"
      [] section = "tarot" -> "awaiting_tarot"

\* line 319
ProfileComplete(s) ==
    Has(s, "gender") /\ Has(s, "birth_month") /\ Has(s, "birth_year")

-----------------------------------------------------------------------------
(* What one handler run produces: the session it leaves, the replies it    *)
(* sent, the gateway calls it made, what it forwarded to the admin chat,   *)
(* and the exception that ended it ("none" when it returned).              *)

R(s, out, calls, sink, err) ==
    [s |-> s, out |-> out, calls |-> calls, sink |-> sink, err |-> err]

Call(cap, result) == [cap |-> cap, result |-> result]

-----------------------------------------------------------------------------
(* The prompts.  Every helper sends through update.message.reply_text.     *)
(* handle_message passes the Update it received; handle_callback passes    *)
(* query.message, a telegram.Message, which has neither a .message nor an  *)
(* .effective_user attribute, so the first such access in the callee       *)
(* raises AttributeError.  upd is "Update" or "Message" accordingly.       *)

\* lines 367, 377, 383, 395, ...: update.message.reply_text(...)
ReplyText(upd, s, tag) ==
    IF upd = "Update" THEN R(s, <<tag>>, <<>>, <<>>, "none")
    ELSE R(s, <<>>, <<>>, <<>>, "AttributeError")

\* lines 361-370
ask_gender(upd, s) == ReplyText(upd, s, "ask_gender")

\* lines 372-380
ask_birth_month(upd, s) == ReplyText(upd, s, "ask_birth_month")

\* lines 382-386
ask_birth_year(upd, s) == ReplyText(upd, s, "ask_birth_year")

\* lines 511-522: the question, then state = 'awaiting_feedback'
ask_feedback(s) == Put(s, "state", "awaiting_feedback")

\* Mutant of proceed_to_section: without lines 334 and 349, the state left
\* as line 202 or 323 set it (f'awaiting_{section}').
proceed_to_sectionKeepsState(s, section) ==
    CASE section = "dream" -> R(s, <<"prompt_dream">>, <<>>, <<>>, "none")
      [] section = "coffee" -> R(s, <<"prompt_coffee">>, <<>>, <<>>, "none")
      [] section = "tarot" -> R(s, <<"prompt_tarot">>, <<>>, <<>>, "none")
      [] OTHER -> R(s, <<>>, <<>>, <<>>, "none")

\* lines 326-359
proceed_to_section(s, section) ==
    CASE section = "dream" ->
           R(Put(s, "state", "awaiting_dream"), <<"prompt_dream">>, <<>>, <<>>, "none")
      [] section = "coffee" ->
           R(Put(s, "state", "awaiting_coffee_photo"), <<"prompt_coffee">>, <<>>, <<>>, "none")
      [] section = "tarot" ->
           R(s, <<"prompt_tarot">>, <<>>, <<>>, "none")
      [] OTHER -> R(s, <<>>, <<>>, <<>>, "none")

\* Mutant of start_section: line 319 with 'and' for 'or', asking for the
\* profile only when no field is stored.
start_sectionAnd(s) ==
    IF ~Has(s, "gender") /\ ~Has(s, "birth_month") /\ ~Has(s, "birth_year")
    THEN ask_gender("Update", Put(s, "state", "awaiting_gender"))
    ELSE proceed_to_section(Put(s, "state", AwaitingOf(s["section"])), s["section"])

\* lines 314-324; the caller has just stored 'section'
start_section(s) ==
    IF ~ProfileComplete(s)
    THEN ask_gender("Update", Put(s, "state", "awaiting_gender"))
    ELSE proceed_to_section(Put(s, "state", AwaitingOf(s["section"])), s["section"])

-----------------------------------------------------------------------------
(* The reading flows.  o is the outcome of the environment for this run:   *)
(*   o.transcribe  "ok" | "empty" | "fail"   speech-to-text                *)
(*   o.complete    "ok" | "fail"             text completion               *)
(*   o.vision      "ok" | "invalid" | "fail" image analysis                *)
(*   o.bad         0, or the position of the first drawn card whose        *)
(*                 artwork cannot be read                                  *)
(*   o.notify      "ok" | "fail"             send to the admin chat        *)
(*   o.seed        the random seed of a tarot draw                         *)
(*   o.deliver     "ok" | "media_fail" | "text_fail"   sending the tarot   *)
(*                 reading: the album (line 495), then the text (line 496) *)

\* lines 390-392, 417-419, 452-454: gender, birth_month, birth_year are
\* indexed before anything is sent
ProfileKeyError(s) == ~ProfileComplete(s)

\* lines 388-413
interpret_dream(s, dream_text, o) ==
    IF ProfileKeyError(s) THEN R(s, <<>>, <<>>, <<>>, "KeyError")
    ELSE R(ask_feedback(s),
           <<"wait", IF o.complete = "ok" THEN "reading" ELSE "fallback",
             "ask_feedback">>,
           <<Call("completeText", o.complete)>>, <<>>, "none")

\* lines 437: 'نامعتبر' in text; a failed call is turned into the marker
\* (line 435)
IsInvalidSubject(vision) == vision \in {"invalid", "fail"}

\* lines 415-445
interpret_coffee(s, o) ==
    IF ProfileKeyError(s) THEN R(s, <<>>, <<>>, <<>>, "KeyError")
    ELSE IF IsInvalidSubject(o.vision)
         THEN R(s, <<"wait", "invalid_subject">>,
                <<Call("analyzeImage", o.vision)>>, <<>>, "none")
         ELSE R(ask_feedback(s), <<"wait", "reading", "ask_feedback">>,
                <<Call("analyzeImage", o.vision)>>, <<>>, "none")

\* lines 447-497
interpret_tarot(upd, s, o) ==
    IF upd # "Update" THEN R(s, <<>>, <<>>, <<>>, "AttributeError")
    ELSE IF ~Has(s, "tarot_layout") \/ ~Has(s, "tarot_cards") \/ ProfileKeyError(s)
         THEN R(s, <<>>, <<>>, <<>>, "KeyError")
    ELSE IF o.bad \in 1..Len(s["tarot_cards"])
         THEN R(s, <<"wait", "asset_error">>,
                <<Call("completeText", o.complete)>>, <<>>, "none")
    ELSE IF o.deliver = "media_fail"
         THEN R(s, <<"wait">>,
                <<Call("completeText", o.complete)>>, <<>>, "TelegramError")
    ELSE IF o.deliver = "text_fail"
         THEN R(s, <<"wait", "media_group">>,
                <<Call("completeText", o.complete)>>, <<>>, "TelegramError")
         ELSE R(ask_feedback(s),
                <<"wait", "media_group",
                  IF o.complete = "ok" THEN "reading" ELSE "fallback",
                  "ask_feedback">>,
                <<Call("completeText", o.complete)>>, <<>>, "none")

-----------------------------------------------------------------------------
(* The tarot draw (lines 306-309).  random.sample draws num_cards indices  *)
(* without replacement: each pick takes one of the indices still in the    *)
(* pool.  The generator is a stream fixed by a seed.                       *)

\* the i-th value of the generator's stream, below m
RandBelow(seed, i, m) == (seed * (i + 3) + i * i) % m

RECURSIVE SampleFrom(_, _, _, _)
SampleFrom(pool, n, seed, i) ==
    IF n = 0 THEN <<>>
    ELSE LET j == RandBelow(seed, i, Len(pool)) + 1
             rest == [k \in 1..(Len(pool) - 1) |->
                         IF k < j THEN pool[k] ELSE pool[k + 1]]
         IN  <<pool[j]>> \o SampleFrom(rest, n - 1, seed, i + 1)

\* Mutant of Sample: the indices drawn with replacement (random.choices for
\* random.sample), each pick taken from the whole deck.
SampleRepeating(n, seed) == [i \in 1..n |-> RandBelow(seed, i - 1, DeckSize)]

\* line 307: random.sample(range(78), num_cards)
Sample(n, seed) == SampleFrom([k \in 1..DeckSize |-> k - 1], n, seed, 0)

\* line 308: random.choice(['upright', 'reversed']) for each card
Orientation(seed, i) ==
    IF RandBelow(seed + 1, i + DeckSize, 2) = 0 THEN "upright" ELSE "reversed"

\* line 309: list(zip(cards, orientations))
Draw(n, seed) ==
    LET cards == Sample(n, seed)
    IN  [i \in 1..n |-> <<cards[i], Orientation(seed, i)>>]

\* the seeds of the model
AllSeeds == 0..((IF MaxSeed > MaxDrawSeed THEN MaxSeed ELSE MaxDrawSeed) - 1)

\* the draws of every layout size and seed of the model, computed once
Draws ==
    [n \in {card_counts[l] : l \in DOMAIN card_counts} |->
        [seed \in AllSeeds |-> Draw(n, seed)]]

-----------------------------------------------------------------------------
(* handle_message, lines 121-273.  s is user_data[user_id] after lines     *)
(* 126-127; ev.kind is "text", "voice" or "photo", ev.text the text.       *)

\* lines 132-153
MainMenuBranch(s, ev) ==
    IF ev.text = TxtDream THEN start_section(Put(s, "section", "dream"))
    ELSE IF ev.text = TxtCoffee THEN start_section(Put(s, "section", "coffee"))
    ELSE IF ev.text = TxtTarot THEN start_section(Put(s, "section", "tarot"))
    ELSE IF ev.text = TxtExplain
         THEN R(s, <<"explanations">>, <<>>, <<>>, "none")
    ELSE R(s, <<"choose_from_menu">>, <<>>, <<>>, "none")

\* Mutant of HomeBranch: home replaces the session as reset does.
HomeBranchAsReset(s) == R(Fresh, <<"home">>, <<>>, <<>>, "none")

\* lines 156-162
HomeBranch(s) == R(Put(s, "state", "main_menu"), <<"home">>, <<>>, <<>>, "none")

\* lines 163-169
ResetBranch(s) == R(Fresh, <<"reset_done">>, <<>>, <<>>, "none")

\* lines 172-182
GenderBranch(s, ev) ==
    IF ev.text \in {TxtMale, TxtFemale}
    THEN ask_birth_month("Update",
             Put(Put(s, "gender", ev.text), "state", "awaiting_birth_month"))
    ELSE R(s, <<"reprompt_gender">>, <<>>, <<>>, "none")

\* lines 184-194
MonthBranch(s, ev) ==
    IF IsMonth(ev.text)
    THEN ask_birth_year("Update",
             Put(Put(s, "birth_month", MonthIndex(ev.text)),
                 "state", "awaiting_birth_year"))
    ELSE R(s, <<"reprompt_month">>, <<>>, <<>>, "none")

\* line 200
ValidYear(year) == MinYear <= year /\ year <= CurrentYear

\* Mutant of YearBranch: the year is stored under another key.
YearBranchWrongKey(s, ev) ==
    LET p == PyInt(ev.text)
        s1 == Put(s, "year", p.val)
    IN  IF p.err = "TypeError" THEN R(s, <<>>, <<>>, <<>>, "TypeError")
        ELSE IF p.err = "ValueError" \/ ~ValidYear(p.val)
             THEN R(s, <<"reprompt_year">>, <<>>, <<>>, "none")
        ELSE IF ~Has(s1, "section") THEN R(s1, <<>>, <<>>, <<>>, "KeyError")
        ELSE proceed_to_section(Put(s1, "state", AwaitingOf(s1["section"])),
                                s1["section"])

\* lines 196-211: only ValueError is caught
YearBranch(s, ev) ==
    LET p == PyInt(ev.text)
        s1 == Put(s, "birth_year", p.val)
    IN  IF p.err = "TypeError" THEN R(s, <<>>, <<>>, <<>>, "TypeError")
        ELSE IF p.err = "ValueError" \/ ~ValidYear(p.val)
             THEN R(s, <<"reprompt_year">>, <<>>, <<>>, "none")
        ELSE IF ~Has(s1, "section") THEN R(s1, <<>>, <<>>, <<>>, "KeyError")
        ELSE proceed_to_section(Put(s1, "state", AwaitingOf(s1["section"])),
                                s1["section"])

\* lines 213-246
DreamBranch(s, ev, o) ==
    IF ev.kind = "voice" /\ o.transcribe = "fail"
    THEN R(s, <<"voice_error">>, <<Call("transcribe", "fail")>>, <<>>, "none")
    ELSE LET heard == IF ev.kind = "voice"
                      THEN <<Call("transcribe", o.transcribe)>> ELSE <<>>
             dream_text == IF ev.kind = "voice"
                           THEN (IF o.transcribe = "ok" THEN <<"spoken">> ELSE <<>>)
                           ELSE ev.text
         IN  IF dream_text # <<>>
             THEN LET r == interpret_dream(Put(s, "state", "awaiting_feedback"),
                                           dream_text, o)
                  IN  R(r.s, r.out, heard \o r.calls, r.sink, r.err)
             ELSE R(s, <<"reprompt_dream">>, heard, <<>>, "none")

\* lines 248-259
CoffeeBranch(s, ev, o) ==
    IF ev.kind = "photo"
    THEN interpret_coffee(Put(s, "state", "awaiting_feedback"), o)
    ELSE R(s, <<"reprompt_coffee">>, <<>>, <<>>, "none")

\* Mutant of FeedbackBranch: line 265 outside a try, the exception of a
\* failed send ending the handler.
FeedbackBranchUncaught(s, ev, o) ==
    IF o.notify = "fail"
    THEN R(s, <<>>, <<>>, <<[text |-> ev.text, result |-> o.notify]>>, "TelegramError")
    ELSE R(Put(s, "state", "main_menu"), <<"feedback_thanks">>, <<>>,
           <<[text |-> ev.text, result |-> o.notify]>>, "none")

\* Mutant of FeedbackBranch: the acknowledgement without lines 264-267, the
\* feedback never handed to the admin chat.
FeedbackBranchSilent(s, ev, o) ==
    R(Put(s, "state", "main_menu"), <<"feedback_thanks">>, <<>>, <<>>, "none")

\* lines 261-273
FeedbackBranch(s, ev, o) ==
    R(Put(s, "state", "main_menu"), <<"feedback_thanks">>, <<>>,
      <<[text |-> ev.text, result |-> o.notify]>>, "none")

\* lines 129-273
handle_message(s, ev, o) ==
    LET state == s["state"]
    IN  IF state = "main_menu" THEN MainMenuBranch(s, ev)
        ELSE IF ev.text = TxtHome THEN HomeBranch(s)
        ELSE IF ev.text = TxtReset THEN ResetBranch(s)
        ELSE IF state = "awaiting_gender" THEN GenderBranch(s, ev)
        ELSE IF state = "awaiting_birth_month" THEN MonthBranch(s, ev)
        ELSE IF state = "awaiting_birth_year" THEN YearBranch(s, ev)
        ELSE IF state = "awaiting_dream" THEN DreamBranch(s, ev, o)
        ELSE IF state = "awaiting_coffee_photo" THEN CoffeeBranch(s, ev, o)
        ELSE IF state = "awaiting_feedback" THEN FeedbackBranch(s, ev, o)
        ELSE R(s, <<>>, <<>>, <<>>, "none")

-----------------------------------------------------------------------------
(* handle_callback, lines 275-312.  s is user_data[user_id]; ev.data is    *)
(* the callback data, ev.gender / ev.month / ev.layout its payload.        *)

\* lines 281-286
GenderButton(s, ev) ==
    ask_birth_month("Message",
        Put(Put(s, "gender", IF ev.data = "gender_male" THEN TxtMale ELSE TxtFemale),
            "state", "awaiting_birth_month"))

\* lines 288-293
MonthButton(s, ev) ==
    ask_birth_year("Message",
        Put(Put(s, "birth_month", ev.month), "state", "awaiting_birth_year"))

\* Mutant of LayoutButton: line 312 hands interpret_tarot the Update itself
\* (update for query.message), so that the reading is composed and sent.
LayoutButtonPassingUpdate(s, ev, o) ==
    LET layout_real == TAROT_LAYOUTS[ev.layout]
        num_cards == card_counts[layout_real]
        s1 == Put(s, "tarot_layout", ev.layout)
        s2 == Put(s1, "tarot_cards", Draws[num_cards][o.seed])
    IN  interpret_tarot("Update", Put(s2, "state", "awaiting_feedback"), o)

\* lines 295-312
LayoutButton(s, ev, o) ==
    LET layout_real == TAROT_LAYOUTS[ev.layout]
        num_cards == card_counts[layout_real]
        s1 == Put(s, "tarot_layout", ev.layout)
        s2 == Put(s1, "tarot_cards", Draws[num_cards][o.seed])
    IN  interpret_tarot("Message", Put(s2, "state", "awaiting_feedback"), o)

\* lines 281-312
handle_callback(s, ev, o) ==
    IF ev.data \in {"gender_male", "gender_female"} THEN GenderButton(s, ev)
    ELSE IF ev.data = "month" THEN MonthButton(s, ev)
    ELSE LayoutButton(s, ev, o)

-----------------------------------------------------------------------------
(* The inputs *)

Users == {"u1", "u2"}

\* the user whose events the one-handler-at-a-time specification follows
Sender == "u1"

NoEvent == [kind |-> "none", text |-> None, data |-> "", month |-> 0, layout |-> ""]

TextEvent(t) == [NoEvent EXCEPT !.kind = "text", !.text = t]

VoiceEvent == [NoEvent EXCEPT !.kind = "voice"]

PhotoEvent == [NoEvent EXCEPT !.kind = "photo"]

\* lines 363-364: callback_data 'gender_male', 'gender_female'
GenderButtonEvent(d) == [NoEvent EXCEPT !.kind = "button", !.data = d]

\* line 375: callback_data f'month_{i}'
MonthButtonEvent(i) == [NoEvent EXCEPT !.kind = "button", !.data = "month", !.month = i]

\* line 354: callback_data f'tarot_layout_{key}'
LayoutButtonEvent(key) ==
    [NoEvent EXCEPT !.kind = "button", !.data = "tarot_layout", !.layout = key]

YearTexts ==
    { <<"1", "8", "9", "9">>, <<"1", "9", "0", "0">>,
      <<"2", "0", "2", "6">>, <<"2", "0", "2", "7">> }

TextInputs ==
    { TxtDream, TxtCoffee, TxtTarot, TxtExplain, TxtHome, TxtReset,
      TxtMale, TxtFemale, PERSIAN_MONTHS[1], <<"x">> }
    \cup YearTexts

\* the month button pressed: month_12
MonthButtons == {12}

\* the layout button pressed in the whole state machine, a three-card
\* spread (the tarot flow on its own presses every button of the table)
LayoutKeys == {"masir"}

Seeds == 0..(MaxSeed - 1)

Calm ==
    [transcribe |-> "ok", complete |-> "ok", vision |-> "ok", bad |-> 0,
     notify |-> "ok", seed |-> 0, deliver |-> "ok"]

\* The outcomes the environment can produce for a message handled in state
\* st: only the calls the branch of that state makes are varied (a dream
\* narrative is completed, a voice transcribed first, a photo analysed,
\* feedback forwarded); the others are never consulted.
MessageOutcomes(st, kind) ==
    IF st = "awaiting_dream"
    THEN { [Calm EXCEPT !.transcribe = t, !.complete = c] :
             t \in (IF kind = "voice" THEN {"ok", "empty", "fail"} ELSE {"ok"}),
             c \in {"ok", "fail"} }
    ELSE IF st = "awaiting_coffee_photo" /\ kind = "photo"
    THEN { [Calm EXCEPT !.vision = v] : v \in {"ok", "invalid", "fail"} }
    ELSE IF st = "awaiting_feedback"
    THEN { [Calm EXCEPT !.notify = n] : n \in {"ok", "fail"} }
    ELSE {Calm}

LayoutOutcomes ==
    { [Calm EXCEPT !.seed = sd, !.complete = c, !.bad = b] :
        sd \in Seeds, c \in {"ok", "fail"}, b \in {0, 1} }

-----------------------------------------------------------------------------
(* The temporary audio file, lines 218-227.  temp_ogg is the content of    *)
(* 'temp.ogg' in the working directory, a sequence of recordings (empty    *)
(* when the file does not exist); every handler of the process uses the    *)
(* same path.  A recording is named after the user who sent it.            *)

NoFile == <<>>

\* line 217: the bytes of the voice message of user u
AudioOf(u) == <<u>>

\* Mutant of WriteTemp: the file opened with 'ab', the recording appended
\* to what an earlier handler left there.
WriteTempAppending(file, bytes) == file \o bytes

\* lines 218-219: open('temp.ogg', 'wb') truncates, then the bytes are
\* written
WriteTemp(file, bytes) == bytes

\* whether handle_message, finding session s, reaches lines 215-227
ReachesVoice(s, ev) == s["state"] = "awaiting_dream" /\ ev.kind = "voice"

\* a handler run that transcribed nothing
NotHeard == [found |-> NoFile, sent |-> <<>>]

\* lines 218-225: the file the handler found at the path, and what it read
\* from the file and sent to be transcribed
Transcribed(file, s, ev, u) ==
    IF ReachesVoice(s, ev)
    THEN [found |-> file, sent |-> WriteTemp(file, AudioOf(u))]
    ELSE NotHeard

\* lines 218-227: the file the handler leaves; os.remove (line 227) is
\* skipped when the transcription raised
TempAfter(file, s, ev, u, o) ==
    IF ~ReachesVoice(s, ev) THEN file
    ELSE IF o.transcribe = "fail" THEN WriteTemp(file, AudioOf(u))
    ELSE NoFile

-----------------------------------------------------------------------------
(* The state machine.  user_data is the session map (line 55); offered[u]  *)
(* is the set of inline keyboards present in u's chat (they stay there     *)
(* after use); last records the last handler run: its event, what the      *)
(* environment did during it (env), what it produced and what it had       *)
(* transcribed (and, as history, the run of valid profile inputs it ends). *)

Absent == [absent |-> TRUE]

SessionOf(ud, u) == IF u \in DOMAIN ud THEN ud[u] ELSE Absent

Store(ud, u, s) == [x \in (DOMAIN ud) \cup {u} |-> IF x = u THEN s ELSE ud[x]]

\* the inline keyboards the replies of a run carry (lines 361-380, 351-359)
Keyboards(out) ==
    { k \in {"gender", "month", "tarot"} :
        \E i \in 1..Len(out) :
            \/ k = "gender" /\ out[i] = "ask_gender"
            \/ k = "month" /\ out[i] = "ask_birth_month"
            \/ k = "tarot" /\ out[i] = "prompt_tarot" }

Record(handler, u, ev, o, r, heard, chain) ==
    [handler |-> handler, user |-> u, ev |-> ev, env |-> o,
     out |-> r.out, calls |-> r.calls, sink |-> r.sink, err |-> r.err,
     heard |-> heard, chain |-> chain]

\* A valid value of a profile field, as the handlers accept it (lines 173,
\* 185, 198-200, 281, 288), and the value it stands for
IsGenderInput(ev) ==
    \/ ev.kind = "text" /\ ev.text \in {TxtMale, TxtFemale}
    \/ ev.kind = "button" /\ ev.data \in {"gender_male", "gender_female"}

IsMonthInput(ev) ==
    \/ ev.kind = "text" /\ IsMonth(ev.text)
    \/ ev.kind = "button" /\ ev.data = "month"

IsYearInput(ev) ==
    /\ ev.kind = "text"
    /\ PyInt(ev.text).err = "none"
    /\ ValidYear(PyInt(ev.text).val)

\* History: the values of an unbroken run gender, month, year of valid
\* inputs that began in 'awaiting_gender' (empty when the last event broke
\* the run).  before is the session the handler found.
NextChain(before, ev) ==
    IF Has(before, "state") /\ before["state"] = "awaiting_gender" /\ IsGenderInput(ev)
    THEN <<ev>>
    ELSE IF Len(last.chain) = 1 /\ IsMonthInput(ev) THEN Append(last.chain, ev)
    ELSE IF Len(last.chain) = 2 /\ IsYearInput(ev) THEN Append(last.chain, ev)
    ELSE <<>>

Init ==
    /\ user_data = << >>
    /\ offered = [u \in Users |-> {}]
    /\ last = Record("none", Sender, NoEvent, Calm,
                     R(Absent, <<>>, <<>>, <<>>, "none"), NotHeard, <<>>)
    /\ queue = <<>>
    /\ running = {}
    /\ temp_ogg = NoFile

\* what a handler run leaves: the session of u and the keyboards in u's chat
Apply(u, r) ==
    /\ user_data' = Store(user_data, u, r.s)
    /\ offered' = [offered EXCEPT ![u] = @ \cup Keyboards(r.out)]

\* lines 121-129 and the branch taken: one run of handle_message
RunMessage(u, ev, o) ==
    LET s == IF u \in DOMAIN user_data THEN user_data[u] ELSE Fresh
        r == handle_message(s, ev, o)
    IN  /\ Apply(u, r)
        /\ temp_ogg' = TempAfter(temp_ogg, s, ev, u, o)
        /\ last' = Record("handle_message", u, ev, o, r,
                          Transcribed(temp_ogg, s, ev, u), NextChain(s, ev))

\* lines 275-312: one run of handle_callback; user_data[user_id] of a user
\* without a session raises KeyError
RunCallback(u, ev, o) ==
    IF u \notin DOMAIN user_data
    THEN /\ last' = Record("handle_callback", u, ev, o,
                           R(Absent, <<>>, <<>>, <<>>, "KeyError"), NotHeard, <<>>)
         /\ UNCHANGED <<user_data, offered>>
    ELSE LET r == handle_callback(user_data[u], ev, o)
         IN  /\ Apply(u, r)
             /\ last' = Record("handle_callback", u, ev, o, r, NotHeard,
                                NextChain(user_data[u], ev))

\* lines 111-119
RunStart(u) ==
    /\ user_data' = Store(user_data, u, Fresh)
    /\ UNCHANGED offered
    /\ last' = Record("start", u, [NoEvent EXCEPT !.kind = "command"], Calm,
                      R(Fresh, <<"welcome">>, <<>>, <<>>, "none"), NotHeard, <<>>)

StateOf(u) == IF u \in DOMAIN user_data THEN user_data[u]["state"] ELSE "main_menu"

TextMessage ==
    /\ \E t \in TextInputs, o \in MessageOutcomes(StateOf(Sender), "text") :
           RunMessage(Sender, TextEvent(t), o)
    /\ UNCHANGED <<queue, running>>

VoiceMessage ==
    /\ \E o \in MessageOutcomes(StateOf(Sender), "voice") :
           RunMessage(Sender, VoiceEvent, o)
    /\ UNCHANGED <<queue, running>>

PhotoMessage ==
    /\ \E o \in MessageOutcomes(StateOf(Sender), "photo") :
           RunMessage(Sender, PhotoEvent, o)
    /\ UNCHANGED <<queue, running>>

GenderCallback ==
    /\ "gender" \in offered[Sender]
    /\ \E d \in {"gender_male", "gender_female"} :
           RunCallback(Sender, GenderButtonEvent(d), Calm)
    /\ UNCHANGED <<queue, running, temp_ogg>>

MonthCallback ==
    /\ "month" \in offered[Sender]
    /\ \E i \in MonthButtons : RunCallback(Sender, MonthButtonEvent(i), Calm)
    /\ UNCHANGED <<queue, running, temp_ogg>>

LayoutCallback ==
    /\ "tarot" \in offered[Sender]
    /\ \E key \in LayoutKeys, o \in LayoutOutcomes :
           RunCallback(Sender, LayoutButtonEvent(key), o)
    /\ UNCHANGED <<queue, running, temp_ogg>>

StartCommand ==
    /\ RunStart(Sender)
    /\ UNCHANGED <<queue, running, temp_ogg>>

Next ==
    \/ TextMessage
    \/ VoiceMessage
    \/ PhotoMessage
    \/ GenderCallback
    \/ MonthCallback
    \/ LayoutCallback
    \/ StartCommand

Spec == Init /\ [][Next]_vars

\* The process started again: the session map is empty (line 55; it is
\* never persisted) while the user's chat still shows the inline keyboards
\* an earlier run of the process sent.
RestartInit ==
    /\ user_data = << >>
    /\ offered = [u \in Users |-> IF u = Sender THEN {"gender", "month", "tarot"} ELSE {}]
    /\ last = Record("none", Sender, NoEvent, Calm,
                     R(Absent, <<>>, <<>>, <<>>, "none"), NotHeard, <<>>)
    /\ queue = <<>>
    /\ running = {}
    /\ temp_ogg = NoFile

SpecRestart == RestartInit /\ [][Next]_vars

-----------------------------------------------------------------------------
(* Scheduling, lines 524-536.  The application is built with the default   *)
(* update processing (line 527: no concurrent_updates) and the handlers    *)
(* are registered blocking (lines 530-533): the application takes the next *)
(* update from its queue only when the handler of the previous one has     *)
(* returned.  A handler is suspended while its gateway calls are           *)
(* outstanding: running holds the suspended handler runs, each with the    *)
(* session it found at line 129.  (last, the history of the               *)
(* one-handler-at-a-time specification, is not kept here.)                 *)

\* Mutant of CanFetch: the application built with concurrent_updates(True),
\* which takes the next update while handlers are still running.
CanFetchConcurrent(r) == TRUE

\* line 527: ApplicationBuilder().token(...).build()
CanFetch(r) == r = {}

\* the session a dialogue is in once the profile is entered and the dream
\* flow waits for its narrative
InDreamFlow ==
    [state |-> "awaiting_dream", section |-> "dream", gender |-> TxtMale,
     birth_month |-> 1, birth_year |-> CurrentYear]

\* the updates that arrive in the scheduling model
ConcEvents ==
    { TextEvent(<<"x">>), TextEvent(TxtCoffee), VoiceEvent, PhotoEvent,
      GenderButtonEvent("gender_female") }

ConcInit ==
    /\ user_data = [u \in Users |-> InDreamFlow]
    /\ offered = [u \in Users |-> {"gender", "month"}]
    /\ last = Record("none", Sender, NoEvent, Calm,
                     R(Absent, <<>>, <<>>, <<>>, "none"), NotHeard, <<>>)
    /\ queue = <<>>
    /\ running = {}
    /\ temp_ogg = NoFile

\* an update arrives in the application's update queue
Receive ==
    /\ Len(queue) < MaxQueue
    /\ \E u \in Users, ev \in ConcEvents :
           queue' = Append(queue, [user |-> u, ev |-> ev])
    /\ UNCHANGED <<user_data, offered, last, running, temp_ogg>>

\* whether handle_message, finding session s, reaches a gateway call
Suspends(s, ev) ==
    ev.kind # "button" /\ handle_message(s, ev, Calm).calls # <<>>

\* the application takes the next update and runs its handler, to the end
\* or to its first gateway call
Begin ==
    /\ queue # <<>>
    /\ CanFetch(running)
    /\ queue' = Tail(queue)
    /\ LET u == Head(queue).user
           ev == Head(queue).ev
       IN  IF Suspends(user_data[u], ev)
           THEN /\ running' = running \cup {[user |-> u, ev |-> ev, s |-> user_data[u]]}
                /\ UNCHANGED <<user_data, offered, last, temp_ogg>>
           ELSE /\ running' = running
                /\ LET r == IF ev.kind = "button"
                            THEN handle_callback(user_data[u], ev, Calm)
                            ELSE handle_message(user_data[u], ev, Calm)
                   IN  Apply(u, r)
                /\ temp_ogg' = TempAfter(temp_ogg, user_data[u], ev, u, Calm)
                /\ UNCHANGED last

\* the gateway calls of a suspended handler return and it runs to its end
End ==
    /\ \E a \in running :
         /\ running' = running \ {a}
         /\ \E o \in MessageOutcomes(a.s["state"], a.ev.kind) :
              LET r == handle_message(a.s, a.ev, o)
              IN  /\ Apply(a.user, r)
                  /\ temp_ogg' = TempAfter(temp_ogg, a.s, a.ev, a.user, o)
    /\ UNCHANGED <<queue, last>>

ConcNext ==
    \/ Receive
    \/ Begin
    \/ End

SpecConc == ConcInit /\ [][ConcNext]_vars

-----------------------------------------------------------------------------
(* Two users dictating their dreams: the scheduling of lines 524-536 with  *)
(* the handler runs recorded in last, to follow what each voice handler    *)
(* found in the temporary file and what it sent to be transcribed.         *)

\* the updates that arrive while both users are in the dream flow
VoiceEvents == { VoiceEvent, TextEvent(<<"x">>), TextEvent(TxtDream) }

VoiceInit ==
    /\ user_data = [u \in Users |-> InDreamFlow]
    /\ offered = [u \in Users |-> {"gender", "month"}]
    /\ last = Record("none", Sender, NoEvent, Calm,
                     R(Absent, <<>>, <<>>, <<>>, "none"), NotHeard, <<>>)
    /\ queue = <<>>
    /\ running = {}
    /\ temp_ogg = NoFile

VoiceReceive ==
    /\ Len(queue) < MaxQueue
    /\ \E u \in Users, ev \in VoiceEvents :
           queue' = Append(queue, [user |-> u, ev |-> ev])
    /\ UNCHANGED <<user_data, offered, last, running, temp_ogg>>

\* the application takes the next update: its handler runs to the end, or
\* to the await of the download (lines 216-217) or of the pause before a
\* completion (line 398)
VoiceBegin ==
    /\ queue # <<>>
    /\ CanFetch(running)
    /\ queue' = Tail(queue)
    /\ LET u == Head(queue).user
           ev == Head(queue).ev
       IN  IF Suspends(user_data[u], ev)
           THEN /\ running' = running \cup {[user |-> u, ev |-> ev, s |-> user_data[u]]}
                /\ UNCHANGED <<user_data, offered, last, temp_ogg>>
           ELSE /\ running' = running
                /\ RunMessage(u, ev, Calm)

\* a suspended handler resumes: lines 218-227 run without an await (the
\* transcription is a blocking call), then the rest of the handler
VoiceEnd ==
    /\ \E a \in running :
         /\ running' = running \ {a}
         /\ \E o \in MessageOutcomes(a.s["state"], a.ev.kind) :
              LET r == handle_message(a.s, a.ev, o)
              IN  /\ Apply(a.user, r)
                  /\ temp_ogg' = TempAfter(temp_ogg, a.s, a.ev, a.user, o)
                  /\ last' = Record("handle_message", a.user, a.ev, o, r,
                                    Transcribed(temp_ogg, a.s, a.ev, a.user), <<>>)
    /\ UNCHANGED queue

VoiceNext ==
    \/ VoiceReceive
    \/ VoiceBegin
    \/ VoiceEnd

SpecVoice == VoiceInit /\ [][VoiceNext]_vars

-----------------------------------------------------------------------------
(* The tarot flow on its own: a dialogue that has entered the profile and  *)
(* selected the tarot flow, with every layout of the table and a wider     *)
(* range of seeds than the whole state machine explores.                   *)

\* the session once the profile is entered and the layout keyboard is shown
\* (lines 201-203, 351-359)
InTarotFlow ==
    [state |-> "awaiting_tarot", section |-> "tarot", gender |-> TxtFemale,
     birth_month |-> 1, birth_year |-> MinYear]

DrawSeeds == 0..(MaxDrawSeed - 1)

DrawOutcomes ==
    { [Calm EXCEPT !.seed = sd, !.bad = b, !.complete = c, !.deliver = d] :
        sd \in DrawSeeds, b \in {0, 1}, c \in {"ok", "fail"},
        d \in {"ok", "media_fail", "text_fail"} }

\* the texts sent while the layout keyboard is on the screen
DrawTexts == { TxtTarot, TxtHome, TxtReset, <<"x">> }

DrawInit ==
    /\ user_data = [u \in {Sender} |-> InTarotFlow]
    /\ offered = [u \in Users |-> IF u = Sender THEN {"gender", "month", "tarot"} ELSE {}]
    /\ last = Record("none", Sender, NoEvent, Calm,
                     R(Absent, <<>>, <<>>, <<>>, "none"), NotHeard, <<>>)
    /\ queue = <<>>
    /\ running = {}
    /\ temp_ogg = NoFile

\* line 354: one button per key of TAROT_LAYOUTS
DrawLayoutCallback ==
    /\ "tarot" \in offered[Sender]
    /\ \E key \in DOMAIN TAROT_LAYOUTS, o \in DrawOutcomes :
           RunCallback(Sender, LayoutButtonEvent(key), o)
    /\ UNCHANGED <<queue, running, temp_ogg>>

DrawTextMessage ==
    /\ \E t \in DrawTexts, o \in MessageOutcomes(StateOf(Sender), "text") :
           RunMessage(Sender, TextEvent(t), o)
    /\ UNCHANGED <<queue, running>>

DrawNext ==
    \/ DrawLayoutCallback
    \/ DrawTextMessage

SpecDraw == DrawInit /\ [][DrawNext]_vars

-----------------------------------------------------------------------------
(* Vocabulary of the properties *)

Exists == Sender \in DOMAIN user_data

\* the sender's session; a user without one is handled as a fresh one
\* (lines 126-127)
Sess == IF Exists THEN user_data[Sender] ELSE Fresh

ProfileKeys == {"gender", "birth_month", "birth_year"}

FlowDataKeys == {"section", "tarot_layout", "tarot_cards"}

Restrict(s, keys) == [k \in (DOMAIN s) \cap keys |-> s[k]]

HoldsAll(s) == ProfileKeys \subseteq DOMAIN s

\* AwaitingFlowInput(flow) of the specification, as the code names it
FlowInputState(section) ==
    CASE section = "dream" -> "awaiting_dream"
      [] section = "coffee" -> "awaiting_coffee_photo"
      [] section = "tarot" -> "awaiting_tarot"

FlowOfText(t) ==
    CASE t = TxtDream -> "dream" [] t = TxtCoffee -> "coffee" [] t = TxtTarot -> "tarot"

IsFlowSelection(l) ==
    l.handler = "handle_message" /\ l.ev.text \in {TxtDream, TxtCoffee, TxtTarot}

IsHome(l) == l.handler = "handle_message" /\ l.ev.text = TxtHome

IsReset(l) == l.handler = "handle_message" /\ l.ev.text = TxtReset

IsStart(l) == l.handler = "start"

Made(l, cap, result) ==
    \E i \in 1..Len(l.calls) : l.calls[i] = Call(cap, result)

-----------------------------------------------------------------------------
(* C1 *)

\* C1: a reset event handled in any reachable session state, MainMenu
\* included, leaves the session equal to a freshly created one.
C1_ResetYieldsFresh ==
    IsReset(last) => user_data[Sender] = Fresh

-----------------------------------------------------------------------------
(* C2 *)

\* C2: when image analysis answers a coffee photo with the invalid-subject
\* marker, the session is still in AwaitingFlowInput(coffee) when the
\* handler has finished.
C2_InvalidSubjectStays ==
    Made(last, "analyzeImage", "invalid") =>
        user_data[Sender]["state"] = "awaiting_coffee_photo"

-----------------------------------------------------------------------------
(* C3 *)

\* C3: when a flow's gateway call fails, the session state after the
\* handler equals the state before the event; a failed call never moves
\* the session to AwaitingFeedback.
C3_FailedCallKeepsState ==
    [][ (Made(last', "completeText", "fail") \/ Made(last', "analyzeImage", "fail"))
        => /\ user_data'[Sender]["state"] = Sess["state"]
           /\ user_data'[Sender]["state"] # "awaiting_feedback" ]_vars

-----------------------------------------------------------------------------
(* C5 *)

AwaitsField(st) ==
    st \in {"awaiting_gender", "awaiting_birth_month", "awaiting_birth_year"}

ValidFor(st, ev) ==
    CASE st = "awaiting_gender" -> ev.kind = "text" /\ ev.text \in {TxtMale, TxtFemale}
      [] st = "awaiting_birth_month" -> ev.kind = "text" /\ IsMonth(ev.text)
      [] st = "awaiting_birth_year" -> IsYearInput(ev)

RepromptOf(st) ==
    CASE st = "awaiting_gender" -> "reprompt_gender"
      [] st = "awaiting_birth_month" -> "reprompt_month"
      [] st = "awaiting_birth_year" -> "reprompt_year"

\* C5: in AwaitingGender, AwaitingBirthMonth and AwaitingBirthYear every
\* message (text, voice or photo) that is not a valid value of the awaited
\* field, home and reset excepted, leaves the state and the profile fields
\* unchanged and sends the re-prompt of that same field.
C5_InvalidInputReprompts ==
    [][ ( /\ last'.handler = "handle_message"
          /\ AwaitsField(Sess["state"])
          /\ ~ValidFor(Sess["state"], last'.ev)
          /\ last'.ev.text \notin {TxtHome, TxtReset} )
        => /\ user_data'[Sender]["state"] = Sess["state"]
           /\ Restrict(user_data'[Sender], ProfileKeys) = Restrict(Sess, ProfileKeys)
           /\ last'.out = <<RepromptOf(Sess["state"])>> ]_vars

-----------------------------------------------------------------------------
(* C6 *)

\* C6: once a session holds gender, birth month and birth year, no event
\* other than a reset or /start changes any of the three values.
C6_ProfileImmutable ==
    [][ (HoldsAll(Sess) /\ ~IsReset(last') /\ ~IsStart(last'))
        => Restrict(user_data'[Sender], ProfileKeys) = Restrict(Sess, ProfileKeys) ]_vars

-----------------------------------------------------------------------------
(* C7 *)

\* C7: a home event handled in any reachable state leaves the session in
\* MainMenu and every other session field (gender, birth month, birth year,
\* section, tarot layout, drawn cards) as it was.
C7_HomeKeepsEverything ==
    [][ IsHome(last') => user_data'[Sender] = Put(Sess, "state", "main_menu") ]_vars

\* a home event has taken a session with a complete profile and a stored
\* tarot draw out of a flow and back to the main menu
C7_Witness ==
    /\ IsHome(last)
    /\ last.out = <<"home">>
    /\ user_data[Sender]["state"] = "main_menu"
    /\ HoldsAll(user_data[Sender])
    /\ FlowDataKeys \subseteq DOMAIN user_data[Sender]

-----------------------------------------------------------------------------
(* C8 *)

PromptStateOf(k) ==
    CASE k = "gender" -> "awaiting_gender"
      [] k = "birth_month" -> "awaiting_birth_month"
      [] k = "birth_year" -> "awaiting_birth_year"

\* the event being handled is a flow selection from MainMenu and the event
\* before it was a home event
SelectsAfterHome ==
    IsHome(last) /\ Sess["state"] = "main_menu" /\ IsFlowSelection(last')

\* C8 as claimed: after a home event, selecting a flow from MainMenu never
\* moves the session into the prompt state of a profile field the session
\* already holds, whatever subset of the fields is stored.
C8_NeverReasksHeldField ==
    [][ SelectsAfterHome =>
          \A k \in ProfileKeys :
              Has(Sess, k) => user_data'[Sender]["state"] # PromptStateOf(k) ]_vars

\* C8 as amended: after a home event, selecting a flow f from MainMenu goes
\* straight to the input state of f when all three fields are stored, and
\* to AwaitingGender when any field is missing (gender being asked again
\* even when it is stored); the stored values are kept either way.
C8_ReasksUnlessComplete ==
    [][ SelectsAfterHome =>
          /\ user_data'[Sender]["state"] =
                (IF HoldsAll(Sess) THEN FlowInputState(FlowOfText(last'.ev.text))
                 ELSE "awaiting_gender")
          /\ Restrict(user_data'[Sender], ProfileKeys) = Restrict(Sess, ProfileKeys) ]_vars

\* a flow was selected with gender and month stored but no year, and the
\* session is back at the gender prompt
C8_Witness ==
    /\ IsFlowSelection(last)
    /\ Exists
    /\ user_data[Sender]["state"] = "awaiting_gender"
    /\ DOMAIN Restrict(user_data[Sender], ProfileKeys) = {"gender", "birth_month"}

-----------------------------------------------------------------------------
(* C9 *)

-----------------------------------------------------------------------------
(* C10 *)

\* C10: whenever a session is back in MainMenu after a flow completed
\* (feedback recorded), it holds no tarot layout and no drawn cards, and no
\* flow is active.
C10_FlowDataCleared ==
    (last.handler = "handle_message" /\ last.sink # <<>>) =>
        /\ user_data[Sender]["state"] = "main_menu"
        /\ DOMAIN user_data[Sender] \cap FlowDataKeys = {}

-----------------------------------------------------------------------------
(* C4 *)

\* the handler runs of user u whose gateway calls are outstanding
Outstanding(u) == {a \in running : a.user = u}

\* C4: while a gateway call started by one event of a user is outstanding,
\* no further event of that user is taken up, so no second gateway call is
\* ever started for that session: at most one handler run of a user is
\* suspended in a call, and no update of that user leaves the queue before
\* the call has ended.
C4_OneCallPerSession ==
    /\ [](\A u \in Users : Cardinality(Outstanding(u)) <= 1)
    /\ [][ \A u \in Users :
             (Outstanding(u) # {} /\ queue # <<>> /\ Head(queue).user = u)
             => Len(queue') >= Len(queue) ]_vars

\* a call of a user is outstanding while a further event of the same user
\* waits in the queue
C4_Witness ==
    \E u \in Users :
        /\ Outstanding(u) # {}
        /\ \E i \in 1..Len(queue) : queue[i].user = u

-----------------------------------------------------------------------------
(* C11 *)

\* the card count the claim gives for each layout
ClaimedCardCount(layout_real) ==
    CASE layout_real = "Celtic Cross" -> 10
      [] layout_real = "Three Card Spread" -> 3
      [] layout_real = "One Card Draw" -> 1
      [] layout_real = "Past Present Future" -> 3
      [] layout_real = "Relationship Spread" -> 7

WellFormedDraw(layout_key, cards) ==
    /\ Len(cards) = ClaimedCardCount(TAROT_LAYOUTS[layout_key])
    /\ \A i \in 1..Len(cards) :
          /\ cards[i][1] \in 0..77
          /\ cards[i][2] \in {"upright", "reversed"}
    /\ \A i, j \in 1..Len(cards) : i # j => cards[i][1] # cards[j][1]

IsLayoutButton(l) == l.handler = "handle_callback" /\ l.ev.data = "tarot_layout"

\* C11: for every layout key of the layout table, the cards stored by a
\* layout selection have exactly the layout's card count (10, 3, 1, 3, 7),
\* pairwise distinct card indices all in 0..77, and one orientation in
\* {upright, reversed} per card, for every outcome of the random choices.
C11_DrawIsWellFormed ==
    IsLayoutButton(last) =>
        /\ {"tarot_layout", "tarot_cards"} \subseteq DOMAIN user_data[Sender]
        /\ user_data[Sender]["tarot_layout"] = last.ev.layout
        /\ WellFormedDraw(last.ev.layout, user_data[Sender]["tarot_cards"])

\* a Celtic Cross selection has stored ten cards, some upright and some
\* reversed
C11_Witness ==
    /\ IsLayoutButton(last)
    /\ last.ev.layout = "razha"
    /\ Len(user_data[Sender]["tarot_cards"]) = 10
    /\ \E i, j \in 1..10 :
          /\ user_data[Sender]["tarot_cards"][i][2] = "upright"
          /\ user_data[Sender]["tarot_cards"][j][2] = "reversed"

-----------------------------------------------------------------------------
(* C12 *)

\* C12: when the artwork of a drawn card is missing or unreadable during a
\* tarot reading, the session state after the handler has finished is
\* AwaitingFlowInput(tarot) (layout selection), not AwaitingFeedback.
C12_AssetErrorRestartsFlow ==
    (IsLayoutButton(last) /\ last.env.bad # 0) =>
        /\ user_data[Sender]["state"] = "awaiting_tarot"
        /\ user_data[Sender]["state"] # "awaiting_feedback"

-----------------------------------------------------------------------------
(* C13 *)

Delivered(l, tag) == \E i \in 1..Len(l.out) : l.out[i] = tag

\* C13: a tarot reading delivers either the images of all drawn cards
\* together with the interpretation text, or none of them: after every
\* layout selection the album of the drawn cards was sent exactly when the
\* interpretation was sent, and the stand-in text of a failed completion is
\* never sent with or without the album.
C13_AllOrNothing ==
    IsLayoutButton(last) =>
        /\ Delivered(last, "media_group") <=> Delivered(last, "reading")
        /\ ~Delivered(last, "fallback")

\* a layout was selected, its cards were drawn and stored, and the handler
\* ended without having sent an image or a text
C13_Witness ==
    /\ IsLayoutButton(last)
    /\ Has(user_data[Sender], "tarot_cards")
    /\ last.out = <<>>
    /\ last.err = "AttributeError"

-----------------------------------------------------------------------------
(* C14 *)

\* the event being handled is a text message found in AwaitingFeedback
TextInFeedback ==
    /\ Exists
    /\ Sess["state"] = "awaiting_feedback"
    /\ last'.handler = "handle_message"
    /\ last'.ev.kind = "text"

\* the run handed exactly the event's text to the notification sink
ForwardedOnce(l) == Len(l.sink) = 1 /\ l.sink[1].text = l.ev.text

\* C14 as claimed: in AwaitingFeedback every text event, whatever its
\* content, is forwarded once to the notification sink as that user's
\* feedback and moves the session to MainMenu.
C14_EveryTextForwarded ==
    [][ TextInFeedback =>
          /\ ForwardedOnce(last')
          /\ last'.user = Sender
          /\ user_data'[Sender]["state"] = "main_menu" ]_vars

\* C14 as amended: in AwaitingFeedback every text event other than the home
\* and reset texts is forwarded once to the notification sink as that
\* user's feedback and moves the session to MainMenu with nothing else
\* changed; the home and the reset text are not forwarded, home moving the
\* session to MainMenu and reset replacing it by a fresh one.
C14_TextForwardedUnlessNavigation ==
    [][ TextInFeedback =>
          IF last'.ev.text \notin {TxtHome, TxtReset}
          THEN /\ ForwardedOnce(last')
               /\ last'.user = Sender
               /\ user_data'[Sender] = Put(Sess, "state", "main_menu")
          ELSE /\ last'.sink = <<>>
               /\ user_data'[Sender] =
                     (IF last'.ev.text = TxtHome THEN Put(Sess, "state", "main_menu")
                      ELSE Fresh) ]_vars

\* a menu text sent in AwaitingFeedback was forwarded as feedback and the
\* session is in MainMenu
C14_Witness ==
    /\ last.handler = "handle_message"
    /\ last.ev.text = TxtDream
    /\ ForwardedOnce(last)
    /\ last.out = <<"feedback_thanks">>
    /\ user_data[Sender]["state"] = "main_menu"

-----------------------------------------------------------------------------
(* C15 *)

\* the event being handled is the first one of a user without a session
FirstEvent ==
    /\ ~Exists
    /\ last'.user = Sender
    /\ last'.handler \in {"handle_message", "handle_callback"}
    /\ last'.ev.kind \in {"text", "voice", "photo", "button"}

\* C15: the first event of a user who has no session, of any kind (text,
\* voice, photo or button), creates that user's session in MainMenu with an
\* empty profile and is then handled without an error: afterwards the
\* session exists, holds no profile field the event did not supply, and the
\* handler has returned normally.
C15_FirstEventCreatesSession ==
    [][ FirstEvent =>
          /\ Sender \in DOMAIN user_data'
          /\ last'.err = "none"
          /\ Cardinality(DOMAIN Restrict(user_data'[Sender], ProfileKeys)) <= 1 ]_vars

-----------------------------------------------------------------------------
(* C16 *)

\* C16: from MainMenu, selecting a flow f in {dream, coffee, tarot} records
\* f as the active flow and leaves the session in AwaitingGender when at
\* least one of the three profile fields is missing, and in
\* AwaitingFlowInput(f) when all three are present.
C16_FlowSelection ==
    [][ (Sess["state"] = "main_menu" /\ IsFlowSelection(last'))
        => /\ user_data'[Sender]["section"] = FlowOfText(last'.ev.text)
           /\ \/ /\ ~HoldsAll(Sess)
                 /\ user_data'[Sender]["state"] = "awaiting_gender"
              \/ /\ HoldsAll(Sess)
                 /\ user_data'[Sender]["state"] =
                       FlowInputState(FlowOfText(last'.ev.text)) ]_vars

\* the coffee flow was selected from MainMenu by a session holding the
\* whole profile and another flow's data, and waits for the photo
C16_Witness ==
    /\ IsFlowSelection(last)
    /\ last.ev.text = TxtCoffee
    /\ last.out = <<"prompt_coffee">>
    /\ HoldsAll(user_data[Sender])
    /\ user_data[Sender]["section"] = "coffee"
    /\ user_data[Sender]["state"] = "awaiting_coffee_photo"
    /\ Has(user_data[Sender], "tarot_cards")

-----------------------------------------------------------------------------
(* C17 *)

\* the event being handled is an unusable input of the flow the session
\* waits in (the home and reset texts, which navigate from every state, are
\* not counted as flow input)
UnusableFlowInput ==
    /\ Exists
    /\ last'.user = Sender
    /\ last'.handler \in {"handle_message", "handle_callback"}
    /\ \/ /\ Sess["state"] = "awaiting_dream"
          /\ \/ last'.ev.kind \in {"photo", "button"}
             \/ last'.ev.kind = "voice" /\ last'.env.transcribe \in {"fail", "empty"}
       \/ /\ Sess["state"] = "awaiting_coffee_photo"
          /\ last'.ev.kind # "photo"
          /\ last'.ev.text \notin {TxtHome, TxtReset}

\* C17: an unusable flow input (in AwaitingFlowInput(dream) an event with
\* neither text nor voice, or a voice whose transcription fails or is
\* empty; in AwaitingFlowInput(coffee) any event without a photo) leaves
\* the session unchanged, starts no completion or vision call, and the user
\* is re-prompted.
C17_UnusableInputKeepsSession ==
    [][ UnusableFlowInput =>
          /\ user_data'[Sender] = user_data[Sender]
          /\ \A i \in 1..Len(last'.calls) :
                last'.calls[i].cap \notin {"completeText", "analyzeImage"}
          /\ last'.out \in { <<"reprompt_dream">>, <<"voice_error">>,
                              <<"reprompt_coffee">> } ]_vars

-----------------------------------------------------------------------------
(* C18 *)

\* the step handles (takes up and finishes, or resumes) an event of user u
Handles(u) ==
    \/ \E a \in running : a \notin running' /\ a.user = u
    \/ queue # <<>> /\ queue' = Tail(queue) /\ Head(queue).user = u

-----------------------------------------------------------------------------
(* C19 *)

\* the gateway capability a flow's input is interpreted with
CapabilityOf(st) ==
    CASE st = "awaiting_dream" -> "completeText"
      [] st = "awaiting_coffee_photo" -> "analyzeImage"
      [] st = "awaiting_tarot" -> "completeText"

\* the event being handled is an input the flow the session waits in
\* accepts: a dream narrative, a coffee photo, a tarot layout choice
AcceptedFlowInput ==
    /\ Exists
    /\ last'.user = Sender
    /\ \/ /\ Sess["state"] = "awaiting_dream"
          /\ last'.handler = "handle_message"
          /\ \/ last'.ev.kind = "text" /\ last'.ev.text \notin {TxtHome, TxtReset}
             \/ last'.ev.kind = "voice" /\ last'.env.transcribe = "ok"
       \/ /\ Sess["state"] = "awaiting_coffee_photo"
          /\ last'.handler = "handle_message"
          /\ last'.ev.kind = "photo"
       \/ /\ Sess["state"] = "awaiting_tarot"
          /\ IsLayoutButton(last')

CallsOf(l, cap) == Cardinality({i \in 1..Len(l.calls) : l.calls[i].cap = cap})

\* C19: each accepted flow input (a dream narrative, a coffee photo, a
\* tarot layout choice) causes exactly one call of the matching gateway
\* capability, whether the call succeeds or fails, and no handler run makes
\* more than one completion or vision call.
C19_OneCallPerInput ==
    /\ [][ AcceptedFlowInput =>
             CallsOf(last', CapabilityOf(Sess["state"])) = 1 ]_vars
    /\ [](CallsOf(last, "completeText") + CallsOf(last, "analyzeImage") <= 1)

-----------------------------------------------------------------------------
(* C20 *)

\* the last handler run tried to forward feedback and the send failed
NotifyFailed(l) ==
    /\ l.handler = "handle_message"
    /\ Len(l.sink) = 1
    /\ l.sink[1].result = "fail"

\* C20: when forwarding feedback to the notification sink fails, the
\* failure is not surfaced to the user: the handler returns normally, the
\* session has moved from AwaitingFeedback to MainMenu and the only reply
\* is the acknowledgement with the main menu.
C20_NotifyFailureHidden ==
    NotifyFailed(last) =>
        /\ last.err = "none"
        /\ user_data[Sender]["state"] = "main_menu"
        /\ last.out = <<"feedback_thanks">>

\* a feedback text could not be forwarded, and the session is in MainMenu
\* with the acknowledgement sent
C20_Witness ==
    /\ NotifyFailed(last)
    /\ last.ev.text = <<"x">>
    /\ last.env.notify = "fail"
    /\ last.out = <<"feedback_thanks">>
    /\ user_data[Sender]["state"] = "main_menu"

-----------------------------------------------------------------------------
(* C21 *)

\* the event being handled is one its handler passes on to an
\* interpretation: a dream narrative (line 240), a coffee photo (line 253),
\* or a layout button in whatever state the session is (line 312)
StartsInterpretation ==
    /\ Exists
    /\ last'.user = Sender
    /\ \/ /\ Sess["state"] = "awaiting_dream"
          /\ last'.handler = "handle_message"
          /\ \/ last'.ev.kind = "text" /\ last'.ev.text \notin {TxtHome, TxtReset}
             \/ last'.ev.kind = "voice" /\ last'.env.transcribe = "ok"
       \/ /\ Sess["state"] = "awaiting_coffee_photo"
          /\ last'.handler = "handle_message"
          /\ last'.ev.kind = "photo"
       \/ IsLayoutButton(last')

\* C21: an interpretation is only ever started for a session that holds all
\* three profile fields: whenever an event is passed on to an
\* interpretation, a layout button pressed after a reset or before the
\* profile is complete included, the session holds gender, birth month and
\* birth year, and no handler run fails on a missing one or makes a gateway
\* call for a session that lacks one.
C21_InterpretationNeedsProfile ==
    [][ /\ StartsInterpretation => (HoldsAll(Sess) /\ last'.err # "KeyError")
        /\ (Exists /\ last'.user = Sender
              /\ CallsOf(last', "completeText") + CallsOf(last', "analyzeImage") > 0)
             => HoldsAll(Sess) ]_vars

-----------------------------------------------------------------------------
(* C22 *)

\* the state whose prompt carries the keyboard a button belongs to: the
\* layout keyboard (line 354), the month keyboard (line 375), the gender
\* keyboard (lines 363-364)
OfferingState(l) ==
    CASE l.ev.data = "tarot_layout" -> "awaiting_tarot"
      [] l.ev.data = "month" -> "awaiting_birth_month"
      [] OTHER -> "awaiting_gender"

\* a button event handled for a session that is not in the state that
\* offered the button
ButtonOutOfState ==
    /\ Exists
    /\ last'.handler = "handle_callback"
    /\ last'.user = Sender
    /\ Sess["state"] # OfferingState(last')

\* C22: a button event is only honoured in the state that offered it: a
\* gender button handled in a state other than AwaitingGender, a month
\* button in a state other than AwaitingBirthMonth and a tarot layout button
\* in a state other than AwaitingFlowInput(tarot) leave the session's state,
\* profile and flow data unchanged.
C22_ButtonOnlyInItsState ==
    [][ ButtonOutOfState =>
          /\ Sender \in DOMAIN user_data'
          /\ Restrict(user_data'[Sender], {"state"} \cup ProfileKeys \cup FlowDataKeys)
               = Restrict(Sess, {"state"} \cup ProfileKeys \cup FlowDataKeys) ]_vars

-----------------------------------------------------------------------------
(* C23 *)

\* the event just handled was a text message of the sender, and the run of
\* handle_message returned (no exception ended it)
TextHandled ==
    /\ last.handler = "handle_message"
    /\ last.user = Sender
    /\ last.ev.kind = "text"
    /\ last.err = "none"

\* C23: no state/event combination is a silent no-op: for every reachable
\* state, AwaitingFlowInput(tarot) included, and every text event, a run of
\* the handler that returns has sent at least one reply to the user (a
\* prompt, a re-prompt, a reading or a menu).
C23_EveryTextAnswered == TextHandled => last.out # <<>>

====
